---- MODULE Spec2Model ----
(***************************************************************************)
(* Webpage phishing detection: the content risk-scoring engine             *)
(* (page_phishing.py, class WebpagePhishingDetector) and its HTTP caller   *)
(* (page_api.py, predict_phishing).                                        *)
(*                                                                         *)
(* Conventions of this model.                                              *)
(*  - Python str values are TLA+ strings; indices handed to the Py*        *)
(*    operators are Python's (0-based, -1 for "not found").                *)
(*  - Scores are Python floats in the code.  Here a finite score is an     *)
(*    integer number of thousandths (0.35 is 350, 1.0 is 1000); all the    *)
(*    weights of the code are multiples of 0.01, so every sum, half and    *)
(*    cap below is exact.  A float that went through the model service's   *)
(*    JSON can also be NaN (json.loads accepts the literal NaN), so the    *)
(*    scores of the Decision Combiner are records [nan, v].                *)
(*  - A Python dict is a function from its keys.                           *)
(***************************************************************************)
EXTENDS Integers, Sequences, FiniteSets, TLC

VARIABLES
    detector,           \* the global detector: the sets get_domain_reputation
                        \* reads from self
    pc,                 \* position of the run
    url,                \* the URL under analysis (data.url, then url)
    domain_reputation,  \* get_domain_reputation's dict
    soup,               \* scrape_webpage: [status, page], status "none",
                        \* "ok" or "failed"
    features,           \* the WebpageFeatures record
    content_analysis,   \* calculate_content_risk_score's dict
    service,            \* what the text-generation service did on this call
    llm_analysis,       \* analyze_content_with_llm's dict
    result,             \* detect_webpage_phishing: [exc, ret]
    response            \* predict_phishing: [status, detail, body]

vars == <<detector, pc, url, domain_reputation, soup, features,
          content_analysis, service, llm_analysis, result, response>>

(***************************************************************************)
(* Python str operations.                                                  *)
(***************************************************************************)
Min2(a, b) == IF b < a THEN b ELSE a

Max2(a, b) == IF b > a THEN b ELSE a

\* the characters a..b (1-based) of s that exist
Sub(s, a, b) ==
    IF b < a \/ b < 1 \/ a > Len(s) THEN ""
    ELSE SubSeq(s, Max2(a, 1), Min2(b, Len(s)))

Ch(s, i) == Sub(s, i, i)

RECURSIVE FindFrom(_, _, _)
\* 1-based position of the first occurrence of sub in s at or after i, 0 if none
FindFrom(s, sub, i) ==
    IF i + Len(sub) - 1 > Len(s) THEN 0
    ELSE IF Sub(s, i, i + Len(sub) - 1) = sub THEN i
    ELSE FindFrom(s, sub, i + 1)

RECURSIVE RFindFrom(_, _, _)
\* 1-based position of the last occurrence of sub in s at or before i, 0 if none
RFindFrom(s, sub, i) ==
    IF i < 1 THEN 0
    ELSE IF Sub(s, i, i + Len(sub) - 1) = sub THEN i
    ELSE RFindFrom(s, sub, i - 1)

\* s.find(sub)
PyFind(s, sub) == FindFrom(s, sub, 1) - 1

\* s.rfind(sub)
PyRFind(s, sub) == RFindFrom(s, sub, Len(s) - Len(sub) + 1) - 1

\* sub in s
PyIn(sub, s) == PyFind(s, sub) # -1

\* s[a:b], with Python's reading of a negative index
PySlice(s, a, b) ==
    LET lo == IF a < 0 THEN Max2(Len(s) + a, 0) ELSE Min2(a, Len(s))
        hi == IF b < 0 THEN Max2(Len(s) + b, 0) ELSE Min2(b, Len(s))
    IN  IF hi <= lo THEN "" ELSE Sub(s, lo + 1, hi)

PyStartsWith(s, p) == Sub(s, 1, Len(p)) = p

PyEndsWith(s, p) ==
    /\ Len(p) <= Len(s)
    /\ Sub(s, Len(s) - Len(p) + 1, Len(s)) = p

UpperAlpha == "ABCDEFGHIJKLMNOPQRSTUVWXYZ"

LowerAlpha == "abcdefghijklmnopqrstuvwxyz"

\* the characters of s, as a set
CharSet(s) == {Ch(s, i) : i \in 1..Len(s)}

UpperSet == CharSet(UpperAlpha)

LowerSet == CharSet(LowerAlpha)

DigitSet == CharSet("0123456789")

ToLower == [c \in UpperSet |-> Ch(LowerAlpha, FindFrom(UpperAlpha, c, 1))]

ToUpper == [c \in LowerSet |-> Ch(UpperAlpha, FindFrom(LowerAlpha, c, 1))]

LowerCh(c) == IF c \in UpperSet THEN ToLower[c] ELSE c

RECURSIVE PyLower(_)
\* s.lower()
PyLower(s) == IF s = "" THEN "" ELSE LowerCh(Head(s)) \o PyLower(Tail(s))

RECURSIVE PyStrip(_)
\* s.strip(), with the blank as the only whitespace of the inputs
PyStrip(s) ==
    IF s = "" THEN ""
    ELSE IF Head(s) = " " THEN PyStrip(Tail(s))
    ELSE IF Ch(s, Len(s)) = " " THEN PyStrip(Sub(s, 1, Len(s) - 1))
    ELSE s

\* s.split(".")[-1]
LastLabel(s) == PySlice(s, PyRFind(s, ".") + 1, Len(s))

(***************************************************************************)
(* urllib.parse.urlparse(url).netloc: an optional scheme (a letter, then   *)
(* letters, digits, "+", "-", "."), and after "//" the authority up to     *)
(* the first "/", "?" or "#".  Without "//" the netloc is empty.  A netloc *)
(* with one of "[" and "]" but not the other makes urlparse raise          *)
(* ValueError("Invalid IPv6 URL").                                         *)
(***************************************************************************)
RECURSIVE AllIn(_, _)
AllIn(s, alphabet) ==
    s = "" \/ (Head(s) \in alphabet /\ AllIn(Tail(s), alphabet))

RECURSIVE NetlocEnd(_, _)
\* 0-based position of the first of "/?#" at or after i, or the length
NetlocEnd(s, i) ==
    IF i >= Len(s) THEN Len(s)
    ELSE IF Ch(s, i + 1) \in {"/", "?", "#"} THEN i
    ELSE NetlocEnd(s, i + 1)

UrlNetloc(u) ==
    LET i == PyFind(u, ":")
        hasScheme == /\ i > 0
                     /\ Head(u) \in LowerSet \cup UpperSet
                     /\ AllIn(PySlice(u, 0, i),
                              LowerSet \cup UpperSet \cup DigitSet
                                  \cup {"+", "-", "."})
        rest == IF hasScheme THEN PySlice(u, i + 1, Len(u)) ELSE u
    IN  IF PyStartsWith(rest, "//")
        THEN PySlice(rest, 2, NetlocEnd(rest, 2))
        ELSE ""

\* urlparse(u) raises ValueError
UrlInvalid(u) ==
    LET netloc == CharSet(UrlNetloc(u))
    IN  ("[" \in netloc) # ("]" \in netloc)

(***************************************************************************)
(* Domain Reputation Evaluator.                                            *)
(***************************************************************************)
trusted_domains ==
    {"github.com", "youtube.com", "google.com", "gmail.com",
     "microsoft.com", "apple.com", "facebook.com", "twitter.com",
     "linkedin.com", "stackoverflow.com"}

suspicious_tlds == {"xyz", "top", "tk", "gq", "cf", "ru", "cn", "bond"}

\* the detector as __init__ leaves it
WebpagePhishingDetector ==
    [trusted_domains |-> trusted_domains, suspicious_tlds |-> suspicious_tlds]

\* reputation scores, in thousandths
RepNeutral == 500

RepTrusted == 0

RepSuspicious == 800

\* domain = parsed.netloc.lower(), without a leading "www."
NormalizedHost(u) ==
    LET domain == PyLower(UrlNetloc(u))
    IN  IF PyStartsWith(domain, "www.") THEN PySlice(domain, 4, Len(domain))
        ELSE domain

\* any(domain.endswith(td) for td in self.trusted_domains)
IsTrusted(self, domain) ==
    \E td \in self.trusted_domains : PyEndsWith(domain, td)

\* a classifier in which the second check is an elif of the first
get_domain_reputation_elif(self, u) ==
    LET domain == NormalizedHost(u)
        trusted == IsTrusted(self, domain)
        tld == LastLabel(domain)
        susp == ~trusted /\ tld \in self.suspicious_tlds
    IN  [domain |-> domain,
         tld |-> tld,
         reputation_score |->
             IF trusted THEN RepTrusted
             ELSE IF susp THEN RepSuspicious ELSE RepNeutral,
         reputation_reason |->
             IF trusted THEN <<"trusted_domain">>
             ELSE IF susp THEN <<"suspicious_tld">> ELSE <<>>]

get_domain_reputation(self, u) ==
    LET domain == NormalizedHost(u)
        trusted == IsTrusted(self, domain)
        score1 == IF trusted THEN RepTrusted ELSE RepNeutral
        reason1 == IF trusted THEN <<"trusted_domain">> ELSE <<>>
        tld == LastLabel(domain)
        susp == tld \in self.suspicious_tlds
    IN  [domain |-> domain,
         tld |-> tld,
         reputation_score |-> IF susp THEN RepSuspicious ELSE score1,
         reputation_reason |->
             IF susp THEN Append(reason1, "suspicious_tld") ELSE reason1]

(***************************************************************************)
(* Sequence helpers.                                                       *)
(***************************************************************************)
RECURSIVE SumSeq(_)
SumSeq(q) == IF q = <<>> THEN 0 ELSE Head(q) + SumSeq(Tail(q))

RECURSIVE FlattenSeq(_)
\* the concatenation of a sequence of sequences
FlattenSeq(q) == IF q = <<>> THEN <<>> ELSE Head(q) \o FlattenSeq(Tail(q))

\* q[:n]
Take(q, n) == SubSeq(q, 1, Min2(n, Len(q)))

(***************************************************************************)
(* The detector's vocabularies (WebpagePhishingDetector.__init__).         *)
(***************************************************************************)
suspicious_keywords ==
    <<"urgent", "verify", "suspend", "update", "confirm", "security alert",
      "account blocked", "click here", "limited time", "act now", "winner",
      "congratulations", "free money", "inheritance", "lottery", "prize",
      "banking alert", "paypal", "amazon security", "microsoft support",
      "apple id", "google account", "facebook security",
      "twitter verification", "suspended", "expired", "immediate action",
      "verify identity", "claim now", "tax refund", "virus detected",
      "system infected">>

social_engineering_phrases ==
    <<"verify your account", "confirm your identity",
      "update payment method", "suspicious activity", "unusual activity",
      "security breach", "account compromised", "click to verify",
      "avoid account suspension", "immediate response required",
      "act within 24 hours">>

urgency_words ==
    <<"urgent", "immediately", "asap", "expire", "deadline", "last chance",
      "limited time", "hurry", "quick", "fast", "now or never", "today only">>

suspicious_js_patterns ==
    <<"eval(", "document.write", "unescape", "fromcharcode", "atob(",
      "btoa(", "innerhtml", "location.href", "window.location",
      "document.cookie", "base64">>

(***************************************************************************)
(* re.search(pattern, text, re.I) for the patterns of the extractor.  A    *)
(* pattern is a set of alternatives; an alternative is a literal, or two   *)
(* literals around ".?" or ".*", or a literal, ".*" and a digit.  The text *)
(* is already lowercase and holds no line break.                           *)
(***************************************************************************)
Lit(a) == [pre |-> a, gap |-> "", post |-> ""]

OptGap(a, b) == [pre |-> a, gap |-> "?", post |-> b]

StarGap(a, b) == [pre |-> a, gap |-> "*", post |-> b]

StarDigit(a) == [pre |-> a, gap |-> "*d", post |-> ""]

HasDigitFrom(s, i) == \E j \in i..Len(s) : Ch(s, j) \in DigitSet

AltMatches(alt, text) ==
    LET i == FindFrom(text, alt.pre, 1)
        after == i + Len(alt.pre)
    IN  /\ i # 0
        /\ CASE alt.gap = "" -> TRUE
             [] alt.gap = "*" -> FindFrom(text, alt.post, after) # 0
             [] alt.gap = "*d" -> HasDigitFrom(text, after)
             [] alt.gap = "?" ->
                    \E k \in 1..Len(text) :
                        /\ Sub(text, k, k + Len(alt.pre) - 1) = alt.pre
                        /\ \/ Sub(text, k + Len(alt.pre),
                                     k + Len(alt.pre) + Len(alt.post) - 1)
                                  = alt.post
                           \/ /\ k + Len(alt.pre) <= Len(text)
                              /\ Sub(text, k + Len(alt.pre) + 1,
                                        k + Len(alt.pre) + Len(alt.post))
                                     = alt.post

ReSearch(pattern, text) == \E alt \in pattern.alts : AltMatches(alt, text)

sensitive_patterns ==
    << [src |-> "social security|ssn|social security number",
        alts |-> {Lit("social security"), Lit("ssn"),
                  Lit("social security number")}],
       [src |-> "credit card|card number|cvv|cvc|expiry",
        alts |-> {Lit("credit card"), Lit("card number"), Lit("cvv"),
                  Lit("cvc"), Lit("expiry")}],
       [src |-> "bank account|routing number|account number",
        alts |-> {Lit("bank account"), Lit("routing number"),
                  Lit("account number")}],
       [src |-> "driver.?license|license number",
        alts |-> {OptGap("driver", "license"), Lit("license number")}],
       [src |-> "passport|passport number",
        alts |-> {Lit("passport"), Lit("passport number")}] >>

countdown_pattern ==
    [src |-> "countdown|timer|expires?.*\\d|time.*left",
     alts |-> {Lit("countdown"), Lit("timer"), StarDigit("expire"),
               StarGap("time", "left")}]

fake_error_pattern ==
    [src |-> "error.*occurred|something.*wrong|try.*again|failed.*login",
     alts |-> {StarGap("error", "occurred"), StarGap("something", "wrong"),
               StarGap("try", "again"), StarGap("failed", "login")}]

(***************************************************************************)
(* The parsed document (the BeautifulSoup tree), given by what the         *)
(* extractor's queries find in it:                                         *)
(*   title, meta_description                                               *)
(*   forms            the <form> elements: [action, inputs], each input    *)
(*                    [type, name, placeholder] (a missing attribute "")   *)
(*   text             soup.get_text()                                      *)
(*   onclick_popups, popup_classes, modal_toggles, ad_classes, ad_ids,     *)
(*   iframes, hidden_styles, security_images                               *)
(*                    the number of elements each find_all matches         *)
(*   scripts          the <script> elements: [string, src]                 *)
(***************************************************************************)
DigitStr(n) == Ch("0123456789", n + 1)

RECURSIVE IntStr(_)
\* str(n), n >= 0
IntStr(n) == IF n < 10 THEN DigitStr(n) ELSE IntStr(n \div 10) \o DigitStr(n % 10)

AllInputs(page) == FlattenSeq([i \in 1..Len(page.forms) |-> page.forms[i].inputs])

InputDescriptor(inp) ==
    PyLower(inp.type) \o ":" \o PyLower(inp.name) \o ":" \o PyLower(inp.placeholder)

VocabularyHits(vocabulary, text) ==
    SelectSeq(vocabulary, LAMBDA w : PyIn(w, text))

IsAlertScript(script) ==
    LET body == PyLower(script.string)
    IN  PyIn("alert(", body) \/ PyIn("confirm(", body) \/ PyIn("prompt(", body)

\* the first suspicious pattern of one script, <<>> if it has none
FirstJsPattern(script) ==
    Take(SelectSeq(suspicious_js_patterns,
                   LAMBDA pat : \/ PyIn(pat, PyLower(script.string))
                                \/ PyIn(pat, PyLower(script.src))), 1)

RECURSIVE Dedup(_)
\* the first occurrence of every element, in order
Dedup(q) ==
    IF q = <<>> THEN <<>>
    ELSE LET front == Dedup(SubSeq(q, 1, Len(q) - 1))
             x == q[Len(q)]
         IN  IF x \in {front[i] : i \in 1..Len(front)} THEN front ELSE Append(front, x)

TextCap == 2000

MultipleFormsOver == 2

SecurityBadgesOver == 3

extract_webpage_features(page) ==
    LET forms_count == Len(page.forms)
        form_actions ==
            SelectSeq([i \in 1..forms_count |-> page.forms[i].action],
                      LAMBDA a : a # "")
        inputs == AllInputs(page)
        input_fields == [i \in 1..Len(inputs) |-> InputDescriptor(inputs[i])]
        text_content == PyLower(page.text)
        popup_indicators ==
            page.onclick_popups
            + Len(SelectSeq(page.scripts, IsAlertScript))
            + page.popup_classes + page.modal_toggles
        hidden_elements ==
            page.hidden_styles
            + Len(SelectSeq(inputs, LAMBDA inp : inp.type = "hidden"))
        found_scripts ==
            FlattenSeq([i \in 1..Len(page.scripts) |->
                            FirstJsPattern(page.scripts[i])])
        password_fields == SelectSeq(inputs, LAMBDA inp : inp.type = "password")
        sensitive ==
            FlattenSeq([i \in 1..Len(sensitive_patterns) |->
                IF ReSearch(sensitive_patterns[i], text_content)
                THEN <<"sensitive_data_request:" \o sensitive_patterns[i].src>>
                ELSE <<>>])
        suspicious_elements ==
            (IF password_fields # <<>>
             THEN <<"password_fields:" \o IntStr(Len(password_fields))>>
             ELSE <<>>)
            \o sensitive
            \o (IF forms_count > MultipleFormsOver
                THEN <<"multiple_forms:" \o IntStr(forms_count)>> ELSE <<>>)
            \o (IF page.security_images > SecurityBadgesOver
                THEN <<"excessive_security_badges:"
                           \o IntStr(page.security_images)>>
                ELSE <<>>)
            \o (IF ReSearch(countdown_pattern, text_content)
                THEN <<"countdown_timer">> ELSE <<>>)
            \o (IF ReSearch(fake_error_pattern, text_content)
                THEN <<"fake_error_messages">> ELSE <<>>)
    IN  [title |-> page.title,
         forms_count |-> forms_count,
         input_fields |-> input_fields,
         suspicious_keywords |-> VocabularyHits(suspicious_keywords, text_content),
         popup_indicators |-> popup_indicators,
         ads_count |-> page.ad_classes + page.ad_ids,
         suspicious_elements |-> suspicious_elements,
         text_content |-> PySlice(text_content, 0, TextCap),
         meta_description |-> page.meta_description,
         javascript_suspicious |-> found_scripts # <<>>,
         iframe_count |-> page.iframes,
         hidden_elements |-> hidden_elements,
         urgency_indicators |-> Len(VocabularyHits(urgency_words, text_content)),
         social_engineering_signals |->
             VocabularyHits(social_engineering_phrases, text_content),
         form_actions |-> form_actions,
         \* list(set(...)): the order of a set is not specified; the model
         \* keeps the first-seen order
         suspicious_scripts |-> Dedup(found_scripts)]

(***************************************************************************)
(* Heuristic Risk Scorer.  Weights and caps in thousandths.                *)
(***************************************************************************)
FormsWeight == 350

FormsCap == 700

PasswordRisk == 600

KeywordWeight == 150

KeywordCap == 600

SocialWeight == 250

SocialCap == 700

UrgencyWeight == 200

UrgencyCap == 500

JavascriptRisk == 200

PopupWeight == 250

PopupCap == 500

HiddenAllowance == 5

HiddenWeight == 100

HiddenCap == 400

IframeWeight == 100

IframeCap == 200

AdsAllowance == 5

AdsWeight == 60

AdsCap == 200

ElementWeight == 200

ElementCap == 600

TotalCap == 1000

\* a scorer that enters every factor, with 0 when its trigger does not hold
FactorOrZero(included, name, score) ==
    <<[factor |-> name, score |-> IF included THEN score ELSE 0]>>

\* one entry of risk_factors, or none: the dict keeps insertion order
Factor(included, name, score) ==
    IF included THEN <<[factor |-> name, score |-> score]>> ELSE <<>>

RiskFactors(f) ==
    Factor(f.forms_count > 0, "forms_present",
           Min2(f.forms_count * FormsWeight, FormsCap))
    \o Factor(SelectSeq(f.input_fields, LAMBDA d : PyIn("password", d)) # <<>>,
              "password_fields", PasswordRisk)
    \o Factor(f.suspicious_keywords # <<>>, "suspicious_keywords",
              Min2(Len(f.suspicious_keywords) * KeywordWeight, KeywordCap))
    \o Factor(f.social_engineering_signals # <<>>, "social_engineering",
              Min2(Len(f.social_engineering_signals) * SocialWeight, SocialCap))
    \o Factor(f.urgency_indicators > 0, "urgency_tactics",
              Min2(f.urgency_indicators * UrgencyWeight, UrgencyCap))
    \o Factor(f.javascript_suspicious, "suspicious_javascript", JavascriptRisk)
    \o Factor(f.popup_indicators > 0, "popups",
              Min2(f.popup_indicators * PopupWeight, PopupCap))
    \o Factor(f.hidden_elements > HiddenAllowance, "hidden_elements",
              Min2((f.hidden_elements - HiddenAllowance) * HiddenWeight, HiddenCap))
    \o Factor(f.iframe_count > 0, "iframes",
              Min2(f.iframe_count * IframeWeight, IframeCap))
    \o Factor(f.ads_count > AdsAllowance, "excessive_ads",
              Min2((f.ads_count - AdsAllowance) * AdsWeight, AdsCap))
    \o Factor(f.suspicious_elements # <<>>, "suspicious_elements",
              Min2(Len(f.suspicious_elements) * ElementWeight, ElementCap))

\* the running total risk_score, before the final clamp
RiskSum(factors) == SumSeq([i \in 1..Len(factors) |-> factors[i].score])

\* a scorer that returns the running total as it is
UnclampedTotal(risk_score) == risk_score

\* min(risk_score, 1.0)
ClampTotal(risk_score) == Min2(risk_score, TotalCap)

calculate_content_risk_score(f) ==
    LET risk_factors == RiskFactors(f)
    IN  [total_risk_score |-> ClampTotal(RiskSum(risk_factors)),
         risk_factors |-> risk_factors]

(***************************************************************************)
(* The documents of the model.  A document differs from the empty page in  *)
(* at most MaxActive aspects, each at a level 1..MaxCount.                 *)
(***************************************************************************)
MaxCount == 3

MaxActive == 2

Aspects ==
    {"forms", "inputs", "text", "popups", "hidden", "iframes", "ads",
     "scripts", "badges"}

InputSamples ==
    << <<[type |-> "text", name |-> "user", placeholder |-> "Username"]>>,
       <<[type |-> "text", name |-> "user", placeholder |-> ""],
         [type |-> "password", name |-> "pass", placeholder |-> ""]>>,
       <<[type |-> "hidden", name |-> "token", placeholder |-> ""],
         [type |-> "hidden", name |-> "token", placeholder |-> ""],
         [type |-> "text", name |-> "pw", placeholder |-> "Your Password"]>> >>

TextSamples ==
    << "URGENT: verify your account",
       "Suspended! Act now, limited time. Confirm your identity immediately",
       "Enter card number and SSN. Expires in 5 min. Try it again" >>

ScriptSamples ==
    << <<[string |-> "console.log(1)", src |-> ""]>>,
       <<[string |-> "EVAL(atob(x))", src |-> ""],
         [string |-> "", src |-> "/js/Base64.js"]>>,
       <<[string |-> "alert(document.cookie)", src |-> ""],
         [string |-> "eval(y)", src |-> ""],
         [string |-> "eval(z)", src |-> ""]>> >>

Sample(samples, k) == samples[Min2(k, Len(samples))]

\* the document whose aspect a is at level lvl[a] (0: as in the empty page)
MakePage(lvl) ==
    LET nforms == IF lvl["inputs"] > 0 THEN Max2(lvl["forms"], 1) ELSE lvl["forms"]
        inputsOf(i) == IF i = 1 /\ lvl["inputs"] > 0
                       THEN Sample(InputSamples, lvl["inputs"]) ELSE <<>>
    IN  [title |-> IF lvl["text"] > 0 THEN "Sign in" ELSE "",
         meta_description |-> "",
         forms |-> [i \in 1..nforms |->
                       [action |-> IF i = 2 THEN "" ELSE "/login.php",
                        inputs |-> inputsOf(i)]],
         text |-> IF lvl["text"] > 0 THEN Sample(TextSamples, lvl["text"]) ELSE "",
         onclick_popups |-> lvl["popups"] \div 2,
         popup_classes |-> lvl["popups"],
         modal_toggles |-> 0,
         ad_classes |-> IF lvl["ads"] > 0 THEN 2 * lvl["ads"] + 2 ELSE 0,
         ad_ids |-> lvl["ads"],
         iframes |-> lvl["iframes"],
         hidden_styles |-> IF lvl["hidden"] > 0 THEN 3 * lvl["hidden"] + 2 ELSE 0,
         security_images |-> IF lvl["badges"] > 0 THEN lvl["badges"] + 2 ELSE 0,
         scripts |-> IF lvl["scripts"] > 0
                     THEN Sample(ScriptSamples, lvl["scripts"]) ELSE <<>>]

\* the documents with at most n aspects above level 0
PagesWith(n) ==
    UNION {{MakePage([a \in Aspects |-> IF a \in active THEN g[a] ELSE 0]) :
               g \in [active -> 1..MaxCount]} :
              active \in {A \in SUBSET Aspects : Cardinality(A) <= n}}

(***************************************************************************)
(* JSON values, as json.loads builds them.  One record shape for all:      *)
(*   int   n        string  s        array  items (values)                 *)
(*   nan            bool  n (1, 0)   null   object  items ([k, v] pairs)   *)
(* Numbers of the inputs are integers; strings hold no escape.             *)
(***************************************************************************)
JVal(kind, n, s, items) == [kind |-> kind, n |-> n, s |-> s, items |-> items]

JInt(n) == JVal("int", n, "", <<>>)

JNaN == JVal("nan", 0, "", <<>>)

JBool(b) == JVal("bool", IF b THEN 1 ELSE 0, "", <<>>)

JNull == JVal("null", 0, "", <<>>)

JStr(s) == JVal("string", 0, s, <<>>)

JArr(items) == JVal("array", 0, "", items)

JObj(pairs) == JVal("object", 0, "", pairs)

\* a parser's answer: the value and the position after it, or a failure
Parsed(i, v) == [ok |-> TRUE, i |-> i, v |-> v]

ParseFail == [ok |-> FALSE, i |-> 0, v |-> JNull]

RECURSIVE SkipWs(_, _)
SkipWs(s, i) == IF i <= Len(s) /\ Ch(s, i) = " " THEN SkipWs(s, i + 1) ELSE i

RECURSIVE DigitsEnd(_, _)
\* the position after the run of digits that starts at i
DigitsEnd(s, i) ==
    IF Ch(s, i) \in DigitSet THEN DigitsEnd(s, i + 1) ELSE i

RECURSIVE DecValue(_)
\* int(s) of a string of digits
DecValue(s) ==
    IF s = "" THEN 0
    ELSE DecValue(Sub(s, 1, Len(s) - 1)) * 10
         + PyFind("0123456789", Ch(s, Len(s)))

ParseNumber(s, i) ==
    LET neg == Ch(s, i) = "-"
        d == IF neg THEN i + 1 ELSE i
        \* a leading 0 is a number of its own
        e == IF Ch(s, d) = "0" THEN d + 1 ELSE DigitsEnd(s, d)
    IN  IF e = d THEN ParseFail
        ELSE Parsed(e, JInt((IF neg THEN -1 ELSE 1) * DecValue(Sub(s, d, e - 1))))

ParseString(s, i) ==
    LET j == FindFrom(s, "\"", i + 1)
    IN  IF Ch(s, i) # "\"" \/ j = 0 THEN ParseFail
        ELSE Parsed(j + 1, JStr(Sub(s, i + 1, j - 1)))

ParseLiteral(s, i) ==
    CASE Sub(s, i, i + 2) = "NaN" -> Parsed(i + 3, JNaN)
      [] Sub(s, i, i + 3) = "true" -> Parsed(i + 4, JBool(TRUE))
      [] Sub(s, i, i + 4) = "false" -> Parsed(i + 5, JBool(FALSE))
      [] Sub(s, i, i + 3) = "null" -> Parsed(i + 4, JNull)
      [] OTHER -> ParseFail

RECURSIVE ParseValue(_, _), ParseElements(_, _, _), ParseMembers(_, _, _)
\* the value that starts at i
ParseValue(s, i) ==
    LET c == Ch(s, i)
    IN  CASE c = "{" ->
                 IF Ch(s, SkipWs(s, i + 1)) = "}"
                 THEN Parsed(SkipWs(s, i + 1) + 1, JObj(<<>>))
                 ELSE ParseMembers(s, SkipWs(s, i + 1), <<>>)
          [] c = "[" ->
                 IF Ch(s, SkipWs(s, i + 1)) = "]"
                 THEN Parsed(SkipWs(s, i + 1) + 1, JArr(<<>>))
                 ELSE ParseElements(s, SkipWs(s, i + 1), <<>>)
          [] c = "\"" -> ParseString(s, i)
          [] c \in DigitSet \cup {"-"} -> ParseNumber(s, i)
          [] OTHER -> ParseLiteral(s, i)

\* the elements of an array from i on, after those of acc
ParseElements(s, i, acc) ==
    LET r == ParseValue(s, i)
        j == SkipWs(s, r.i)
    IN  IF ~r.ok THEN ParseFail
        ELSE IF Ch(s, j) = "," THEN ParseElements(s, SkipWs(s, j + 1), Append(acc, r.v))
        ELSE IF Ch(s, j) = "]" THEN Parsed(j + 1, JArr(Append(acc, r.v)))
        ELSE ParseFail

\* the "key": value members of an object from i on, after those of acc
ParseMembers(s, i, acc) ==
    LET k == ParseString(s, i)
        c == SkipWs(s, k.i)
        r == ParseValue(s, SkipWs(s, c + 1))
        j == SkipWs(s, r.i)
        pair == [k |-> k.v.s, v |-> r.v]
    IN  IF ~k.ok \/ Ch(s, c) # ":" THEN ParseFail
        ELSE IF ~r.ok THEN ParseFail
        ELSE IF Ch(s, j) = "," THEN ParseMembers(s, SkipWs(s, j + 1), Append(acc, pair))
        ELSE IF Ch(s, j) = "}" THEN Parsed(j + 1, JObj(Append(acc, pair)))
        ELSE ParseFail

\* json.loads(text): one value and nothing after it; ok FALSE is JSONDecodeError
JsonLoads(text) ==
    LET r == ParseValue(text, SkipWs(text, 1))
    IN  IF r.ok /\ SkipWs(text, r.i) = Len(text) + 1 THEN r ELSE ParseFail

\* the dict of an object's members: a repeated key keeps its last value
PyDict(pairs) ==
    [key \in {pairs[i].k : i \in 1..Len(pairs)} |->
        LET last == CHOOSE i \in 1..Len(pairs) :
                        /\ pairs[i].k = key
                        /\ \A j \in (i + 1)..Len(pairs) : pairs[j].k # key
        IN  pairs[last].v]

(***************************************************************************)
(* Model Judgment Adapter.  svc is what the text-generation service did:   *)
(* exc is the message of the exception llm_client.generate raised ("" if   *)
(* none), text is response['response'].  The prompt is an f-string over    *)
(* the features and cannot fail.                                           *)
(***************************************************************************)
DegradedLikelihood == 50

DegradedConfidence == 0

\* the judgment returned when the response holds no "{" ... "}"
DegradedParse ==
    [phishing_likelihood |-> JInt(DegradedLikelihood),
     content_red_flags |-> JArr(<<JStr("LLM parsing failed")>>),
     confidence |-> JInt(DegradedConfidence),
     primary_tactics |-> JArr(<<>>),
     reasoning |-> JStr("Could not parse LLM response")]

\* a handler that reports a failed call as a harmless page: likelihood 0
DegradedErrorAsSafe(e) ==
    [phishing_likelihood |-> JInt(0),
     content_red_flags |-> JArr(<<JStr("LLM error: " \o e)>>),
     confidence |-> JInt(DegradedConfidence),
     primary_tactics |-> JArr(<<>>),
     reasoning |-> JStr("LLM analysis failed")]

\* the judgment of the except branch; e is str(e)
DegradedError(e) ==
    [phishing_likelihood |-> JInt(DegradedLikelihood),
     content_red_flags |-> JArr(<<JStr("LLM error: " \o e)>>),
     confidence |-> JInt(DegradedConfidence),
     primary_tactics |-> JArr(<<>>),
     reasoning |-> JStr("LLM analysis failed")]

\* json_start != -1 and json_end > json_start
HasJsonSpan(json_start, json_end) == json_start # -1 /\ json_end > json_start

analyze_content_with_llm(f, svc) ==
    IF svc.exc # "" THEN DegradedError(svc.exc)
    ELSE LET response_text == PyStrip(svc.text)
             json_start == PyFind(response_text, "{")
             json_end == PyRFind(response_text, "}") + 1
         IN  IF HasJsonSpan(json_start, json_end)
             THEN LET parsed == JsonLoads(PySlice(response_text, json_start, json_end))
                  IN  IF parsed.ok THEN PyDict(parsed.v.items)
                      ELSE DegradedError("JSONDecodeError")
             ELSE DegradedParse

(***************************************************************************)
(* Python floats of the Decision Combiner: [nan, v], v in thousandths.     *)
(***************************************************************************)
F(v) == [nan |-> FALSE, v |-> v]

FNaN == [nan |-> TRUE, v |-> 0]

\* a < b; every comparison with NaN is False
FLt(a, b) == ~a.nan /\ ~b.nan /\ a.v < b.v

FLe(a, b) == ~a.nan /\ ~b.nan /\ a.v <= b.v

\* min(a, b): a unless b < a
PyMin(a, b) == IF FLt(b, a) THEN b ELSE a

FAdd(a, b) == IF a.nan \/ b.nan THEN FNaN ELSE F(a.v + b.v)

\* abs(a - b)
FDist(a, b) ==
    IF a.nan \/ b.nan THEN FNaN
    ELSE F(IF a.v < b.v THEN b.v - a.v ELSE a.v - b.v)

\* a * 0.5 (the operands of the model are even)
FHalf(a) == IF a.nan THEN FNaN ELSE F(a.v \div 2)

\* a * k for an integer k
FTimes(a, k) == IF a.nan THEN FNaN ELSE F(a.v * k)

(***************************************************************************)
(* Decision Combiner (detect_webpage_phishing, steps 5 to 7).              *)
(***************************************************************************)
\* the reputation scores step 6 tests for
TrustedScore == 0

BoostFromScore == 800

TrustedCap == 200

SuspiciousBoost == 200

CombinedMax == 1000

DecisionThreshold == 500

\* the exception of llm_analysis['phishing_likelihood'] / 100.0, "" if none
LikelihoodError(llm) ==
    IF "phishing_likelihood" \notin DOMAIN llm THEN "KeyError"
    ELSE IF llm["phishing_likelihood"].kind \in {"int", "nan", "bool"} THEN ""
    ELSE "TypeError"

\* llm_analysis['phishing_likelihood'] / 100.0
LlmScore(llm) ==
    LET x == llm["phishing_likelihood"]
    IN  IF x.kind = "nan" THEN FNaN ELSE F(x.n * 10)

\* (content_score * 0.50) + (llm_score * 0.50)
Blend(content_score, llm_score) == FAdd(FHalf(F(content_score)), FHalf(llm_score))

\* an adjustment whose boost has no ceiling: combined_score + 0.2
AdjustWithoutCeiling(combined_score, reputation_score) ==
    IF reputation_score = TrustedScore
    THEN PyMin(combined_score, F(TrustedCap))
    ELSE IF reputation_score >= BoostFromScore
    THEN FAdd(combined_score, F(SuspiciousBoost))
    ELSE combined_score

\* step 6: the adjustment by the domain's reputation
AdjustForReputation(combined_score, reputation_score) ==
    IF reputation_score = TrustedScore
    THEN PyMin(combined_score, F(TrustedCap))
    ELSE IF reputation_score >= BoostFromScore
    THEN PyMin(FAdd(combined_score, F(SuspiciousBoost)), F(CombinedMax))
    ELSE combined_score

\* a decision that counts the boundary as phishing: combined_score >= 0.5
IsPhishingFromBoundary(combined_score) ==
    FLe(F(DecisionThreshold), combined_score)

\* combined_score > 0.5
IsPhishing(combined_score) == FLt(F(DecisionThreshold), combined_score)

\* min(abs(combined_score - 0.5) * 2, 1.0) * 100, in percent: the scores of
\* the model are multiples of 0.005, so the percentage is a whole number
Confidence(combined_score) ==
    LET m == PyMin(FTimes(FDist(combined_score, F(DecisionThreshold)), 2),
                   F(CombinedMax))
    IN  IF m.nan THEN FNaN ELSE F(m.v \div 10)

\* what detect_webpage_phishing hands back: it raises exc, or returns ret
Returns(ret) == [exc |-> "", ret |-> ret]

Raises(exc) == [exc |-> exc, ret |-> <<>>]

\* the dict returned when the fetch failed
ScrapeFailure(u) ==
    Returns(("url" :> u) @@ ("error" :> "Failed to scrape webpage")
            @@ ("is_phishing" :> FALSE) @@ ("confidence" :> F(0)))

WebpageFeaturesSummary(f) ==
    [title |-> f.title,
     forms_count |-> f.forms_count,
     input_fields_sample |-> Take(f.input_fields, 10),
     suspicious_keywords |-> f.suspicious_keywords,
     social_engineering_signals |-> f.social_engineering_signals,
     popup_indicators |-> f.popup_indicators,
     ads_count |-> f.ads_count,
     iframe_count |-> f.iframe_count,
     hidden_elements |-> f.hidden_elements,
     urgency_indicators |-> f.urgency_indicators,
     suspicious_elements |-> f.suspicious_elements,
     javascript_suspicious |-> f.javascript_suspicious,
     suspicious_scripts |-> f.suspicious_scripts]

\* steps 5 to 7 and the returned dict
Verdict(u, rep, f, content, llm) ==
    IF LikelihoodError(llm) # "" THEN Raises(LikelihoodError(llm))
    ELSE LET combined_score ==
                 AdjustForReputation(Blend(content.total_risk_score, LlmScore(llm)),
                                     rep.reputation_score)
         IN  Returns(("url" :> u)
                     @@ ("is_phishing" :> IsPhishing(combined_score))
                     @@ ("confidence" :> Confidence(combined_score))
                     @@ ("combined_risk_score" :> combined_score)
                     @@ ("domain_reputation" :> rep)
                     @@ ("content_analysis" :> content)
                     @@ ("llm_analysis" :> llm)
                     @@ ("webpage_features" :> WebpageFeaturesSummary(f))
                     @@ ("timestamp" :> "now"))

(***************************************************************************)
(* The caller layer: predict_phishing (page_api.py).                       *)
(***************************************************************************)
RECURSIVE TitleFrom(_, _)
\* s.title() from position i on: a letter after a non-letter is upper case,
\* a letter after a letter is lower case
TitleFrom(s, i) ==
    IF i > Len(s) THEN ""
    ELSE (IF Ch(s, i - 1) \in LowerSet \cup UpperSet
          THEN LowerCh(Ch(s, i))
          ELSE IF Ch(s, i) \in LowerSet THEN ToUpper[Ch(s, i)] ELSE Ch(s, i))
         \o TitleFrom(s, i + 1)

RECURSIVE PyReplace(_, _, _)
\* s.replace(a, b) for a single character a
PyReplace(s, a, b) ==
    IF s = "" THEN ""
    ELSE (IF Head(s) = a THEN b ELSE Head(s)) \o PyReplace(Tail(s), a, b)

\* f"{score:.2f}" of a score in thousandths (the scores are multiples of 0.01)
Fmt2(v) ==
    IntStr(v \div 1000) \o "." \o DigitStr((v % 1000) \div 100)
    \o DigitStr((v % 100) \div 10)

RECURSIVE Chars(_)
\* list(s)
Chars(s) == IF s = "" THEN <<>> ELSE <<Head(s)>> \o Chars(Tail(s))

\* whether Python can iterate v
Iterable(v) == v.kind \in {"array", "string", "object"}

\* the elements iterating v yields (the array elements of the inputs are
\* strings; an object yields its keys, a string its characters)
Elements(v) ==
    CASE v.kind = "array" -> [i \in 1..Len(v.items) |-> v.items[i].s]
      [] v.kind = "string" -> Chars(v.s)
      [] v.kind = "object" -> [i \in 1..Len(v.items) |-> v.items[i].k]
      [] OTHER -> <<>>

\* "if score > 0.1"
SignificantOver == 100

\* "if ... >= 0.8"
ReasonsFromScore == 800

MaxRedFlags == 4

\* d.get(key, default)
PyGet(d, key, default) == IF key \in DOMAIN d THEN d[key] ELSE default

LlmFlags(llm) ==
    IF "content_red_flags" \in DOMAIN llm
    THEN Elements(llm["content_red_flags"]) ELSE <<>>

TacticFlags(llm) ==
    IF "primary_tactics" \in DOMAIN llm
    THEN LET t == Elements(llm["primary_tactics"])
         IN  [i \in 1..Len(t) |-> "Tactic: " \o t[i]]
    ELSE <<>>

FactorFlags(content) ==
    IF "risk_factors" \in DOMAIN content
    THEN LET big == SelectSeq(content.risk_factors,
                              LAMBDA rf : rf.score > SignificantOver)
         IN  [i \in 1..Len(big) |->
                 TitleFrom(PyReplace(big[i].factor, "_", " "), 1) \o ": "
                 \o Fmt2(big[i].score)]
    ELSE <<>>

DomainFlags(rep) ==
    IF PyGet(rep, "reputation_score", RepNeutral) >= ReasonsFromScore
    THEN LET reasons == PyGet(rep, "reputation_reason", <<>>)
         IN  [i \in 1..Len(reasons) |-> "Domain: " \o reasons[i]]
    ELSE <<>>

\* red_flags as collected from the three analyses, before the duplicates go
CollectedFlags(llm, content, rep) ==
    LlmFlags(llm) \o TacticFlags(llm) \o FactorFlags(content) \o DomainFlags(rep)

\* a caller that cuts the list without removing the duplicates
FirstFlags(flags) == Take(flags, MaxRedFlags)

\* list(dict.fromkeys(red_flags))[:4]
UniqueFlags(flags) == Take(Dedup(flags), MaxRedFlags)

\* the TypeError of extending red_flags by something that is not iterable
FlagsError(llm) ==
    \/ /\ "content_red_flags" \in DOMAIN llm
       /\ ~Iterable(llm["content_red_flags"])
    \/ /\ "primary_tactics" \in DOMAIN llm
       /\ ~Iterable(llm["primary_tactics"])

\* round(combined_risk_score * 100, 2), in hundredths
RiskScore100(combined) == FTimes(combined, 10)

HttpError(status, detail) == [status |-> status, detail |-> detail, body |-> <<>>]

HttpOk(body) == [status |-> 200, detail |-> "", body |-> body]

\* the PhishingResponse built from the returned dict
PhishingResponse(u, ret) ==
    [url |-> u,
     prediction |-> IF PyGet(ret, "is_phishing", FALSE) THEN 1 ELSE 0,
     risk_score |-> RiskScore100(PyGet(ret, "combined_risk_score", F(0))),
     red_flags |->
         UniqueFlags(CollectedFlags(PyGet(ret, "llm_analysis", <<>>),
                                    PyGet(ret, "content_analysis", <<>>),
                                    PyGet(ret, "domain_reputation", <<>>)))]

\* a caller that does not look for "error" in the returned dict
RespondUnchecked(u, res) ==
    IF res.exc # ""
    THEN HttpError(500, "Internal server error: " \o res.exc)
    ELSE IF FlagsError(PyGet(res.ret, "llm_analysis", <<>>))
    THEN HttpError(500, "Internal server error: TypeError")
    ELSE HttpOk(PhishingResponse(u, res.ret))

\* predict_phishing from the end of run_in_executor on
Respond(u, res) ==
    IF res.exc # ""
    THEN HttpError(500, "Internal server error: " \o res.exc)
    ELSE IF "error" \in DOMAIN res.ret
    THEN HttpError(422, "Analysis failed: " \o res.ret["error"])
    ELSE IF FlagsError(PyGet(res.ret, "llm_analysis", <<>>))
    THEN HttpError(500, "Internal server error: TypeError")
    ELSE HttpOk(PhishingResponse(u, res.ret))

\* the URL handed to the detector
WithScheme(u) ==
    IF PyStartsWith(u, "http://") \/ PyStartsWith(u, "https://") THEN u
    ELSE "https://" \o u

(***************************************************************************)
(* The inputs of the model.                                                *)
(***************************************************************************)
\* URLs given to get_domain_reputation: scheme, host prefix, host, rest
DomainUrls ==
    {sch \o pre \o host \o rest :
        sch \in {"https://", "http://", "HTTPS://", "//", ""},
        pre \in {"", "www.", "WWW.", "not", "x."},
        host \in {"github.com", "GitHub.COM", "twitter.com", "free-prize.xyz",
                  "unknown-site.io", "github.com.ru", "shop.top", "xyz",
                  "bond", "", "[github.com"},
        rest \in {"", ":8080", ".", "/x.xyz", "?u=github.com", "#top"}}

\* data.url of the requests
RequestUrls ==
    {"", "  ", "github.com/SSanjay0614", " https://www.google.com/login ",
     "http://free-prize.xyz", "unknown-site.io", "[github.com"}

\* the longest text of braces and other characters the service returns
MaxJunk == 2

\* the longest list of red flags the service returns
MaxFlags == 4

RECURSIVE StringsOver(_, _)
\* the strings of at most n characters of alphabet
StringsOver(alphabet, n) ==
    IF n = 0 THEN {""}
    ELSE LET shorter == StringsOver(alphabet, n - 1)
         IN  shorter \cup {t \o c : t \in shorter, c \in alphabet}

JunkTexts == StringsOver({"{", "}", "x"}, MaxJunk)

RECURSIVE Join(_, _)
\* sep.join(parts)
Join(sep, parts) ==
    IF parts = <<>> THEN ""
    ELSE IF Len(parts) = 1 THEN parts[1]
    ELSE parts[1] \o sep \o Join(sep, Tail(parts))

Quoted(t) == "\"" \o t \o "\""

\* the JSON text of a list of strings
ArrayText(items) ==
    "[" \o Join(", ", [i \in 1..Len(items) |-> Quoted(items[i])]) \o "]"

FlagPool ==
    <<"Tactic: urgency", "Forms Present: 0.35", "Urgent language",
      "Tactic: urgency", "Fake login", "Domain: suspicious_tld">>

\* the texts of one member's value; "" leaves the member out
LikelihoodTexts ==
    {"", "0", "10", "50", "80", "100", "500", "-20", "NaN", "\"high\""}

FlagTexts ==
    {ArrayText(Take(FlagPool, n)) : n \in 0..MaxFlags} \cup {"", "\"none\"", "3"}

TacticTexts ==
    {ArrayText(Take(<<"urgency", "credential harvesting", "urgency">>, n)) :
        n \in 0..MaxFlags} \cup {"", "null"}

Member(key, text) == IF text = "" THEN <<>> ELSE <<Quoted(key) \o ": " \o text>>

ObjectText(likelihood, flags, confidence, tactics, reasoning) ==
    "{" \o Join(", ", Member("phishing_likelihood", likelihood)
                      \o Member("content_red_flags", flags)
                      \o Member("confidence", confidence)
                      \o Member("primary_tactics", tactics)
                      \o Member("reasoning", reasoning)) \o "}"

\* the service's failures: llm_client.generate raises, or its answer has
\* no 'response'
ServiceErrors == {"ConnectionError", "KeyError"}

Answer(text) == [exc |-> "", text |-> text]

Failure(e) == [exc |-> e, text |-> ""]

\* the objects the service answers with: either the scalar members or the
\* two lists vary
ObjectTexts ==
    {ObjectText(l, ArrayText(Take(FlagPool, 1)), c, "[]", r) :
        l \in LikelihoodTexts, c \in {"", "70", "150"},
        r \in {"", "\"Login form on a lookalike page\""}}
    \cup {ObjectText("80", fl, "70", ta, "\"ok\"") :
            fl \in FlagTexts, ta \in TacticTexts}

\* what the service does when the adapter is run on its own: a failure, a
\* text of braces, or an object inside other text
AdapterOutcomes ==
    {Failure(e) : e \in ServiceErrors}
    \cup {Answer(t) : t \in JunkTexts}
    \cup {Answer(pre \o obj \o post) :
            pre \in {"", " Sure! ", "{"}, post \in {"", " Done.", "}"},
            obj \in ObjectTexts}

\* what the service does in a run of the whole pipeline
PipelineOutcomes ==
    {Failure(e) : e \in ServiceErrors}
    \cup {Answer(t) : t \in JunkTexts}
    \cup {Answer("{\"phishing_likelihood\": 80,}")}
    \cup {Answer(ObjectText(l, ArrayText(Take(FlagPool, 1)), "70", "[]", "\"ok\"")) :
            l \in LikelihoodTexts}
    \cup {Answer(ObjectText("80", fl, "70", ta, "\"ok\"")) :
            fl \in FlagTexts, ta \in TacticTexts}

(***************************************************************************)
(* The state machine.  pc is the place of the run:                         *)
(*   request   predict_phishing has data.url                               *)
(*   detect    detect_webpage_phishing(url) is called                      *)
(*   scrape    step 1, extract step 2, score step 3, llm step 4,           *)
(*   combine   steps 5 to 7                                                *)
(*   returned  detect_webpage_phishing has returned or raised              *)
(*   done      the run is over                                             *)
(***************************************************************************)
Null == <<>>

NoSoup == [status |-> "none", page |-> Null]

FailedSoup == [status |-> "failed", page |-> Null]

GotSoup(page) == [status |-> "ok", page |-> page]

NoService == [exc |-> "", text |-> ""]

NoResult == [exc |-> "", ret |-> Null]

NoResponse == [status |-> 0, detail |-> "", body |-> Null]

Blank ==
    /\ detector = WebpagePhishingDetector
    /\ domain_reputation = Null
    /\ soup = NoSoup
    /\ features = Null
    /\ content_analysis = Null
    /\ service = NoService
    /\ llm_analysis = Null
    /\ result = NoResult
    /\ response = NoResponse

\* predict_phishing up to the call of the detector: strip, the empty check,
\* the default scheme
Validate ==
    /\ pc = "request"
    /\ LET u == PyStrip(url)
       IN  IF u = ""
           THEN /\ response' = HttpError(400, "URL cannot be empty")
                /\ pc' = "done"
                /\ url' = u
           ELSE /\ url' = WithScheme(u)
                /\ pc' = "detect"
                /\ UNCHANGED response
    /\ UNCHANGED <<detector, domain_reputation, soup, features, content_analysis,
                   service, llm_analysis, result>>

\* step 0; the ValueError of urlparse leaves detect_webpage_phishing
CheckDomain ==
    /\ pc = "detect"
    /\ IF UrlInvalid(url)
       THEN /\ result' = Raises("ValueError")
            /\ pc' = "returned"
            /\ UNCHANGED domain_reputation
       ELSE /\ domain_reputation' = get_domain_reputation(detector, url)
            /\ pc' = "scrape"
            /\ UNCHANGED result
    /\ UNCHANGED <<detector, url, soup, features, content_analysis, service,
                   llm_analysis, response>>

\* step 1, scrape_webpage returns the parsed document
ScrapeOk(pages) ==
    /\ pc = "scrape"
    /\ \E page \in pages : soup' = GotSoup(page)
    /\ pc' = "extract"
    /\ UNCHANGED <<detector, url, domain_reputation, features, content_analysis,
                   service, llm_analysis, result, response>>

\* step 1, scrape_webpage caught an exception and returns (None, None)
ScrapeFail ==
    /\ pc = "scrape"
    /\ soup' = FailedSoup
    /\ result' = ScrapeFailure(url)
    /\ pc' = "returned"
    /\ UNCHANGED <<detector, url, domain_reputation, features, content_analysis,
                   service, llm_analysis, response>>

\* step 2
Extract ==
    /\ pc = "extract"
    /\ features' = extract_webpage_features(soup.page)
    /\ pc' = "score"
    /\ UNCHANGED <<detector, url, domain_reputation, soup, content_analysis, service,
                   llm_analysis, result, response>>

\* step 3
Score ==
    /\ pc = "score"
    /\ content_analysis' = calculate_content_risk_score(features)
    /\ pc' = "llm"
    /\ UNCHANGED <<detector, url, domain_reputation, soup, features, service,
                   llm_analysis, result, response>>

\* a step 4 that calls the service again after a failure
JudgeWithRetry(outcomes) ==
    /\ pc = "llm"
    /\ \E svc \in outcomes :
          /\ service' = svc
          /\ llm_analysis' = analyze_content_with_llm(features, svc)
          /\ pc' = IF svc.exc # "" /\ service.exc = "" THEN "llm" ELSE "combine"
    /\ UNCHANGED <<detector, url, domain_reputation, soup, features, content_analysis,
                   result, response>>

\* step 4: one call of the service, whatever it does
Judge(outcomes) ==
    /\ pc = "llm"
    /\ \E svc \in outcomes :
          /\ service' = svc
          /\ llm_analysis' = analyze_content_with_llm(features, svc)
    /\ pc' = "combine"
    /\ UNCHANGED <<detector, url, domain_reputation, soup, features, content_analysis,
                   result, response>>

\* steps 5 to 7
Combine ==
    /\ pc = "combine"
    /\ result' = Verdict(url, domain_reputation, features, content_analysis,
                         llm_analysis)
    /\ pc' = "returned"
    /\ UNCHANGED <<detector, url, domain_reputation, soup, features, content_analysis,
                   service, llm_analysis, response>>

\* predict_phishing after the detector came back
Reply ==
    /\ pc = "returned"
    /\ response' = Respond(url, result)
    /\ pc' = "done"
    /\ UNCHANGED <<detector, url, domain_reputation, soup, features, content_analysis,
                   service, llm_analysis, result>>

\* a request to POST /predict/
Init == pc = "request" /\ url \in RequestUrls /\ Blank

ScrapePipeline == ScrapeOk(PagesWith(1))

JudgePipeline == Judge(PipelineOutcomes)

Next ==
    \/ Validate
    \/ CheckDomain
    \/ ScrapePipeline
    \/ ScrapeFail
    \/ Extract
    \/ Score
    \/ JudgePipeline
    \/ Combine
    \/ Reply

Spec == Init /\ [][Next]_vars

\* get_domain_reputation on its own
InitDomain == pc = "detect" /\ url \in DomainUrls /\ Blank

SpecDomain == InitDomain /\ [][CheckDomain]_vars

\* get_domain_reputation on a detector whose two sets were configured
\* otherwise: nothing keeps a trusted entry from ending in a suspicious TLD
InitConfig ==
    /\ detector \in
           [trusted_domains : SUBSET {"github.com", "example.xyz", "bank.ru"},
            suspicious_tlds : SUBSET {"xyz", "ru", "com"}]
    /\ pc = "detect"
    /\ url \in {"https://github.com/SSanjay0614", "https://www.Example.xyz/login",
                 "http://secure.bank.ru", "https://shop.xyz", "bank.ru/x",
                 "https://unknown-site.io"}
    /\ domain_reputation = Null
    /\ soup = NoSoup
    /\ features = Null
    /\ content_analysis = Null
    /\ service = NoService
    /\ llm_analysis = Null
    /\ result = NoResult
    /\ response = NoResponse

SpecConfig == InitConfig /\ [][CheckDomain]_vars

\* extract_webpage_features and calculate_content_risk_score on a document
InitScore ==
    /\ detector = WebpagePhishingDetector
    /\ pc = "extract"
    /\ url = ""
    /\ domain_reputation = Null
    /\ soup \in {GotSoup(page) : page \in PagesWith(MaxActive)}
    /\ features = Null
    /\ content_analysis = Null
    /\ service = NoService
    /\ llm_analysis = Null
    /\ result = NoResult
    /\ response = NoResponse

SpecScore == InitScore /\ [][Extract \/ Score]_vars

\* analyze_content_with_llm on its own
InitAdapter ==
    /\ detector = WebpagePhishingDetector
    /\ pc = "llm"
    /\ url = ""
    /\ domain_reputation = Null
    /\ soup = NoSoup
    /\ features \in {extract_webpage_features(page) : page \in PagesWith(0)}
    /\ content_analysis = Null
    /\ service = NoService
    /\ llm_analysis = Null
    /\ result = NoResult
    /\ response = NoResponse

SpecAdapter == InitAdapter /\ [][Judge(AdapterOutcomes)]_vars

(***************************************************************************)
(* Concurrent analyses.  predict_phishing hands each request to the thread *)
(* pool (max_workers = 4), and every worker calls the one global detector. *)
(* The detector's attributes are assigned in __init__ only; what a call    *)
(* computes it keeps in the local variables of its own frame.  In this     *)
(* specification every variable is a function of the analysis: pc[t],      *)
(* url[t], soup[t] and service[t] are analysis t's position, argument and  *)
(* what the two collaborators answered it; the other variables are the     *)
(* locals, indexed by the frame that holds them.                           *)
(***************************************************************************)
\* the number of analyses in flight
MaxThreads == 2

Threads == 1..MaxThreads

\* locals kept on the one detector instead of the frame of the call
DetectorFrame(t) == 1

\* the frame that holds the locals of analysis t: its own call of
\* detect_webpage_phishing
FrameOf(t) == t

\* step 0 of analysis t
ThreadCheckDomain(t) ==
    /\ pc[t] = "detect"
    /\ domain_reputation' =
           [domain_reputation EXCEPT ![FrameOf(t)] = get_domain_reputation(detector, url[t])]
    /\ pc' = [pc EXCEPT ![t] = "scrape"]
    /\ UNCHANGED <<detector, url, soup, features, content_analysis, service,
                   llm_analysis, result, response>>

\* step 1 of analysis t, the document is fetched
ThreadScrapeOk(t) ==
    /\ pc[t] = "scrape"
    /\ \E level \in {0, 2} :
          soup' = [soup EXCEPT
                      ![t] = GotSoup(MakePage([a \in Aspects |->
                                 IF a = "inputs" THEN level ELSE 0]))]
    /\ pc' = [pc EXCEPT ![t] = "extract"]
    /\ UNCHANGED <<detector, url, domain_reputation, features, content_analysis,
                   service, llm_analysis, result, response>>

\* step 1 of analysis t, the fetch fails
ThreadScrapeFail(t) ==
    /\ pc[t] = "scrape"
    /\ soup' = [soup EXCEPT ![t] = FailedSoup]
    /\ result' = [result EXCEPT ![t] = ScrapeFailure(url[t])]
    /\ pc' = [pc EXCEPT ![t] = "returned"]
    /\ UNCHANGED <<detector, url, domain_reputation, features, content_analysis,
                   service, llm_analysis, response>>

\* step 2 of analysis t
ThreadExtract(t) ==
    /\ pc[t] = "extract"
    /\ features' =
           [features EXCEPT ![FrameOf(t)] = extract_webpage_features(soup[t].page)]
    /\ pc' = [pc EXCEPT ![t] = "score"]
    /\ UNCHANGED <<detector, url, domain_reputation, soup, content_analysis, service,
                   llm_analysis, result, response>>

\* step 3 of analysis t
ThreadScore(t) ==
    /\ pc[t] = "score"
    /\ content_analysis' =
           [content_analysis EXCEPT
               ![FrameOf(t)] = calculate_content_risk_score(features[FrameOf(t)])]
    /\ pc' = [pc EXCEPT ![t] = "llm"]
    /\ UNCHANGED <<detector, url, domain_reputation, soup, features, service,
                   llm_analysis, result, response>>

\* step 4 of analysis t
ThreadJudge(t) ==
    /\ pc[t] = "llm"
    /\ \E svc \in {Failure("ConnectionError"),
                    Answer(ObjectText("80", ArrayText(Take(FlagPool, 1)), "70",
                                      "[]", "\"ok\""))} :
          /\ service' = [service EXCEPT ![t] = svc]
          /\ llm_analysis' =
                 [llm_analysis EXCEPT
                     ![FrameOf(t)] =
                         analyze_content_with_llm(features[FrameOf(t)], svc)]
    /\ pc' = [pc EXCEPT ![t] = "combine"]
    /\ UNCHANGED <<detector, url, domain_reputation, soup, features, content_analysis,
                   result, response>>

\* steps 5 to 7 of analysis t
ThreadCombine(t) ==
    /\ pc[t] = "combine"
    /\ result' =
           [result EXCEPT
               ![t] = Verdict(url[t], domain_reputation[FrameOf(t)],
                              features[FrameOf(t)], content_analysis[FrameOf(t)],
                              llm_analysis[FrameOf(t)])]
    /\ pc' = [pc EXCEPT ![t] = "returned"]
    /\ UNCHANGED <<detector, url, domain_reputation, soup, features, content_analysis,
                   service, llm_analysis, response>>

\* the requests, each for a different URL, were handed to the pool
InitThreads ==
    /\ detector = WebpagePhishingDetector
    /\ pc = [t \in Threads |-> "detect"]
    /\ url = [t \in Threads |->
                 <<"https://github.com/SSanjay0614", "http://free-prize.xyz",
                   "https://unknown-site.io">>[t]]
    /\ domain_reputation = [t \in Threads |-> Null]
    /\ soup = [t \in Threads |-> NoSoup]
    /\ features = [t \in Threads |-> Null]
    /\ content_analysis = [t \in Threads |-> Null]
    /\ service = [t \in Threads |-> NoService]
    /\ llm_analysis = [t \in Threads |-> Null]
    /\ result = [t \in Threads |-> NoResult]
    /\ response = NoResponse

\* any worker takes its next step
NextThreads ==
    \E t \in Threads :
        \/ ThreadCheckDomain(t)
        \/ ThreadScrapeOk(t)
        \/ ThreadScrapeFail(t)
        \/ ThreadExtract(t)
        \/ ThreadScore(t)
        \/ ThreadJudge(t)
        \/ ThreadCombine(t)

SpecThreads == InitThreads /\ [][NextThreads]_vars

(***************************************************************************)
(* The properties.                                                         *)
(***************************************************************************)
\* detect_webpage_phishing handed back a dict built by steps 5 to 7
VerdictReturned ==
    /\ pc \in {"returned", "done"}
    /\ soup.status = "ok"
    /\ result.exc = ""

\* C1: whenever the reputation score of the domain is 0.0 (a trusted
\* domain), the verdict detect_webpage_phishing returns has a
\* combined_risk_score of at most 0.2 and is_phishing false, whatever the
\* heuristic total and whatever phishing_likelihood the service answered.
C1_TrustedDomainCap ==
    (VerdictReturned /\ domain_reputation.reputation_score = 0)
    => /\ FLe(result.ret["combined_risk_score"], F(200))
       /\ ~result.ret["is_phishing"]

\* C2: every verdict returned after a successful fetch has a
\* combined_risk_score in [0, 1] and a confidence in [0, 100], for every
\* feature record, reputation and response text of the service.
C2_VerdictRanges ==
    VerdictReturned
    => /\ FLe(F(0), result.ret["combined_risk_score"])
       /\ FLe(result.ret["combined_risk_score"], F(1000))
       /\ FLe(F(0), result.ret["confidence"])
       /\ FLe(result.ret["confidence"], F(100))

\* C3: once the fetch succeeded, detect_webpage_phishing returns a full
\* verdict (is_phishing, confidence, combined_risk_score and the constituent
\* records); it neither raises nor returns an error result, whatever the
\* service did.
C3_AlwaysFullVerdict ==
    (pc \in {"returned", "done"} /\ soup.status = "ok")
    => /\ result.exc = ""
       /\ "error" \notin DOMAIN result.ret
       /\ {"is_phishing", "confidence", "combined_risk_score",
           "domain_reputation", "content_analysis", "llm_analysis",
           "webpage_features", "timestamp"} \subseteq DOMAIN result.ret

\* a number of [0, 100]
IsPercentage(v) == v.kind = "int" /\ v.n >= 0 /\ v.n <= 100

\* C4: for every outcome of the service call (an exception or any response
\* text) analyze_content_with_llm returns a structurally valid judgment: the
\* five fields phishing_likelihood, content_red_flags, confidence,
\* primary_tactics and reasoning are present, and phishing_likelihood and
\* confidence lie in [0, 100].
C4_ValidJudgment ==
    pc = "combine"
    => /\ {"phishing_likelihood", "content_red_flags", "confidence",
           "primary_tactics", "reasoning"} \subseteq DOMAIN llm_analysis
       /\ IsPercentage(llm_analysis["phishing_likelihood"])
       /\ IsPercentage(llm_analysis["confidence"])

\* the text has a '{' and, somewhere after it, a '}'
BracePair(t) ==
    \E i, j \in 1..Len(t) : i < j /\ Ch(t, i) = "{" /\ Ch(t, j) = "}"

\* the text from its first '{' to its last '}'
BraceSpan(t) ==
    LET first == CHOOSE i \in 1..Len(t) :
                     Ch(t, i) = "{" /\ \A k \in 1..(i - 1) : Ch(t, k) # "{"
        last == CHOOSE j \in 1..Len(t) :
                    Ch(t, j) = "}" /\ \A k \in (j + 1)..Len(t) : Ch(t, k) # "}"
    IN  Sub(t, first, last)

\* the service call raised, or its text has no '{' followed by a '}', or
\* the text between the braces does not parse
FallbackCase(svc) ==
    \/ svc.exc # ""
    \/ ~BracePair(svc.text)
    \/ ~JsonLoads(BraceSpan(svc.text)).ok

\* likelihood 50, confidence 0, one diagnostic string, no tactics
IsDegraded(judgment) ==
    /\ {"phishing_likelihood", "content_red_flags", "confidence",
        "primary_tactics"} \subseteq DOMAIN judgment
    /\ judgment["phishing_likelihood"] = JInt(50)
    /\ judgment["confidence"] = JInt(0)
    /\ judgment["content_red_flags"].kind = "array"
    /\ Len(judgment["content_red_flags"].items) = 1
    /\ judgment["content_red_flags"].items[1].kind = "string"
    /\ judgment["primary_tactics"] = JArr(<<>>)

\* C5: whenever the service call raises, or the raw response has no '{'
\* followed later by a '}', or the text from the first '{' to the last '}'
\* does not parse, analyze_content_with_llm returns the degraded judgment:
\* phishing_likelihood 50, confidence 0, content_red_flags of exactly one
\* diagnostic string, and empty primary_tactics.
C5_Fallback ==
    (pc = "combine" /\ FallbackCase(service)) => IsDegraded(llm_analysis)

\* the adapter was given braces around text that does not parse, and
\* answered with the degraded judgment
C5_Witness ==
    /\ pc = "combine"
    /\ service.exc = ""
    /\ BracePair(service.text)
    /\ ~JsonLoads(BraceSpan(service.text)).ok
    /\ IsDegraded(llm_analysis)

\* every count is 0, every list is empty, the JavaScript flag is false
AllZero(f) ==
    /\ f.forms_count = 0 /\ f.popup_indicators = 0 /\ f.ads_count = 0
    /\ f.iframe_count = 0 /\ f.hidden_elements = 0 /\ f.urgency_indicators = 0
    /\ f.input_fields = <<>> /\ f.form_actions = <<>>
    /\ f.suspicious_keywords = <<>> /\ f.social_engineering_signals = <<>>
    /\ f.suspicious_elements = <<>> /\ f.suspicious_scripts = <<>>
    /\ ~f.javascript_suspicious

\* C6: for every feature record calculate_content_risk_score returns a
\* total_risk_score in [0, 1]; when every count is 0, every list empty and
\* the JavaScript flag false, the total is exactly 0 and risk_factors is
\* empty.
C6_TotalInUnitRange ==
    pc = "llm"
    => /\ content_analysis.total_risk_score >= 0
       /\ content_analysis.total_risk_score <= 1000
       /\ AllZero(features)
          => /\ content_analysis.total_risk_score = 0
             /\ content_analysis.risk_factors = <<>>

\* a page whose factors add up to more than 1.0 was scored 1.0
C6_Witness ==
    /\ pc = "llm"
    /\ SumSeq([i \in 1..Len(content_analysis.risk_factors) |->
                  content_analysis.risk_factors[i].score]) > 1000
    /\ content_analysis.total_risk_score = 1000

\* the host ends with an entry of the trusted-domain set
EndsWithTrusted(host) ==
    \E k \in 0..Len(host) : Sub(host, k + 1, Len(host)) \in trusted_domains

\* the last dot-separated label of the host is a suspicious TLD
LastLabelSuspicious(host) ==
    \E k \in 0..Len(host) :
        /\ k = 0 \/ Ch(host, k) = "."
        /\ "." \notin CharSet(Sub(host, k + 1, Len(host)))
        /\ Sub(host, k + 1, Len(host)) \in suspicious_tlds

\* the classification of a normalized host
Classified(rep) ==
    /\ CharSet(rep.domain) \cap UpperSet = {}
    /\ IF EndsWithTrusted(rep.domain)
       THEN rep.reputation_score = 0
            /\ rep.reputation_reason = <<"trusted_domain">>
       ELSE IF LastLabelSuspicious(rep.domain)
       THEN rep.reputation_score = 800
            /\ rep.reputation_reason = <<"suspicious_tld">>
       ELSE rep.reputation_score = 500 /\ rep.reputation_reason = <<>>
    /\ rep.reputation_score \in {0, 500, 800}
    /\ rep.domain = "" => rep.reputation_score = 500

\* C7: for every URL get_domain_reputation returns, for the lowercased host
\* without a leading "www.": score 0.0 and reason [trusted_domain] when the
\* host ends with a trusted-domain entry, otherwise 0.8 and [suspicious_tld]
\* when its last dot-separated label is a suspicious TLD, otherwise 0.5 and
\* no reason; the score is one of 0.0, 0.5, 0.8 and a URL with an empty
\* host is neutral.
C7_DomainClassification ==
    pc \in {"scrape", "returned"}
    => result.exc = "" /\ Classified(domain_reputation)

\* the fetch of the document failed and detect_webpage_phishing is over
FetchFailed == pc \in {"returned", "done"} /\ soup.status = "failed"

\* C8: when the fetch of the document fails, detect_webpage_phishing returns
\* an explicit error result in which no verdict field (is_phishing,
\* confidence, combined score) is populated, and no partial scoring is done.
C8_ErrorResultHasNoVerdict ==
    FetchFailed
    => /\ result.exc = ""
       /\ "error" \in DOMAIN result.ret
       /\ DOMAIN result.ret
              \cap {"is_phishing", "confidence", "combined_risk_score"} = {}
       /\ DOMAIN features = {}
       /\ DOMAIN content_analysis = {}
       /\ DOMAIN llm_analysis = {}

\* C9: a request whose fetch failed ends in the 'Analysis failed' error
\* response of predict_phishing and never in a PhishingResponse (prediction
\* 0 with a risk score).
C9_FailedFetchIsAnError ==
    (pc = "done" /\ soup.status = "failed")
    => /\ response.status = 422
       /\ PyStartsWith(response.detail, "Analysis failed")
       /\ "prediction" \notin DOMAIN response.body

\* a request whose fetch failed was answered
C9_Witness ==
    /\ pc = "done"
    /\ soup.status = "failed"
    /\ "error" \in DOMAIN result.ret
    /\ response.status = 422

\* the positions of c that hold a flag for the first time
FirstSeen(c) == {i \in 1..Len(c) : \A j \in 1..(i - 1) : c[j] # c[i]}

\* r lists the first flags of c, each once, in the order they first appear
FirstSeenPrefix(r, c) ==
    \A k \in 1..Len(r) :
        \E i \in FirstSeen(c) :
            /\ c[i] = r[k]
            /\ Cardinality({j \in FirstSeen(c) : j < i}) = k - 1

\* C10: the red_flags predict_phishing returns hold no duplicate, at most 4
\* entries, and are the first-seen-order prefix of the concatenation of the
\* model's content_red_flags, its primary_tactics prefixed 'Tactic: ', the
\* heuristic risk factors of contribution > 0.1, and the domain-reputation
\* reasons (these only when reputation_score >= 0.8).
C10_RedFlags ==
    (pc = "done" /\ response.status = 200)
    => LET c == CollectedFlags(llm_analysis, content_analysis, domain_reputation)
           r == response.body.red_flags
       IN  /\ Len(r) <= 4
           /\ \A i, j \in 1..Len(r) : i # j => r[i] # r[j]
           /\ Len(r) = Min2(4, Cardinality(FirstSeen(c)))
           /\ FirstSeenPrefix(r, c)

\* a response whose flags were collected with duplicates and with more
\* than 4 different ones
C10_Witness ==
    /\ pc = "done"
    /\ response.status = 200
    /\ LET c == CollectedFlags(llm_analysis, content_analysis, domain_reputation)
       IN  /\ Cardinality(FirstSeen(c)) < Len(c)
           /\ Cardinality(FirstSeen(c)) > 4
           /\ \E i \in 1..4 : i \notin FirstSeen(c)
    /\ Len(response.body.red_flags) = 4

\* C11: in every verdict is_phishing is true exactly when the combined score
\* is above 0.5 (exactly 0.5 gives false), and confidence is
\* min(|combined - 0.5| * 2, 1.0) * 100: 0 at 0.5, 100 at 0 and at 1.  (A
\* NaN score is above nothing, and the expression of a NaN is a NaN.)
C11_DecisionAndConfidence ==
    VerdictReturned
    => LET c == result.ret["combined_risk_score"]
           conf == result.ret["confidence"]
           dist == IF c.v >= 500 THEN c.v - 500 ELSE 500 - c.v
       IN  IF c.nan
           THEN ~result.ret["is_phishing"] /\ conf.nan
           ELSE /\ result.ret["is_phishing"] <=> c.v > 500
                /\ ~conf.nan
                /\ conf.v * 10 = (IF dist * 2 < 1000 THEN dist * 2 ELSE 1000)
                /\ c.v = 500 => conf.v = 0
                /\ c.v \in {0, 1000} => conf.v = 100

\* a verdict whose combined score is exactly 0.5
C11_Witness ==
    /\ VerdictReturned
    /\ result.ret["combined_risk_score"] = F(500)
    /\ ~result.ret["is_phishing"]
    /\ result.ret["confidence"] = F(0)

\* no entry of the list q appears twice
NoDuplicates(q) == \A i, j \in 1..Len(q) : i # j => q[i] # q[j]

\* C12: for every document the record extract_webpage_features produces has
\* every count field (forms, popups, ads, iframes, hidden elements, urgency)
\* >= 0, no duplicate in any list field (input descriptors, form actions,
\* suspicious keywords, social-engineering phrases, suspicious scripts,
\* suspicious elements), and a text body of at most 2000 characters.
C12_FeatureRecordInvariants ==
    pc \in {"score", "llm"}
    => /\ features.forms_count >= 0 /\ features.popup_indicators >= 0
       /\ features.ads_count >= 0 /\ features.iframe_count >= 0
       /\ features.hidden_elements >= 0 /\ features.urgency_indicators >= 0
       /\ NoDuplicates(features.input_fields)
       /\ NoDuplicates(features.form_actions)
       /\ NoDuplicates(features.suspicious_keywords)
       /\ NoDuplicates(features.social_engineering_signals)
       /\ NoDuplicates(features.suspicious_scripts)
       /\ NoDuplicates(features.suspicious_elements)
       /\ Len(features.text_content) <= 2000

\* what detect_webpage_phishing returns for u when it runs alone and the
\* collaborators answer with fetched and svc
RunAlone(u, fetched, svc) ==
    IF fetched.status = "failed" THEN ScrapeFailure(u)
    ELSE LET f == extract_webpage_features(fetched.page)
         IN  Verdict(u, get_domain_reputation(detector, u), f,
                     calculate_content_risk_score(f),
                     analyze_content_with_llm(f, svc))

\* C13: when several analyses of different URLs run concurrently through
\* the one global detector, under every interleaving each analysis returns
\* what it would return when run alone (with the same answers of the
\* fetch and of the service): no step of one analysis writes what
\* another reads.
C13_IsolatedAnalyses ==
    \A t \in Threads :
        pc[t] = "returned" => result[t] = RunAlone(url[t], soup[t], service[t])

\* analysis 1 returned its verdict while analysis 2, with another document,
\* was between its extraction and its combination
C13_Witness ==
    /\ pc[1] = "returned"
    /\ soup[1].status = "ok"
    /\ pc[2] \in {"score", "llm", "combine"}
    /\ features[2] # features[1]

\* n * weight capped at cap
Capped(n, weight, cap) == IF n * weight < cap THEN n * weight ELSE cap

\* the entry of a factor whose trigger holds, nothing otherwise
Entry(triggered, name, score) ==
    IF triggered THEN {[factor |-> name, score |-> score]} ELSE {}

\* the factors of the record f by their capped formulas, the hidden-element
\* and ad factors being triggered by a count above hiddenFrom and adsFrom
FactorTable(f, hiddenFrom, adsFrom) ==
    Entry(f.forms_count > 0, "forms_present", Capped(f.forms_count, 350, 700))
    \cup Entry(\E i \in 1..Len(f.input_fields) : PyIn("password", f.input_fields[i]),
               "password_fields", 600)
    \cup Entry(Len(f.suspicious_keywords) > 0, "suspicious_keywords",
               Capped(Len(f.suspicious_keywords), 150, 600))
    \cup Entry(Len(f.social_engineering_signals) > 0, "social_engineering",
               Capped(Len(f.social_engineering_signals), 250, 700))
    \cup Entry(f.urgency_indicators > 0, "urgency_tactics",
               Capped(f.urgency_indicators, 200, 500))
    \cup Entry(f.javascript_suspicious, "suspicious_javascript", 200)
    \cup Entry(f.popup_indicators > 0, "popups",
               Capped(f.popup_indicators, 250, 500))
    \cup Entry(f.hidden_elements > hiddenFrom, "hidden_elements",
               Capped(IF f.hidden_elements > 5 THEN f.hidden_elements - 5 ELSE 0,
                      100, 400))
    \cup Entry(f.iframe_count > 0, "iframes", Capped(f.iframe_count, 100, 200))
    \cup Entry(f.ads_count > adsFrom, "excessive_ads",
               Capped(IF f.ads_count > 5 THEN f.ads_count - 5 ELSE 0, 60, 200))
    \cup Entry(Len(f.suspicious_elements) > 0, "suspicious_elements",
               Capped(Len(f.suspicious_elements), 200, 600))

\* risk_factors holds exactly the entries of table, each once, and the total
\* is their sum clamped to 1.0
ScoredBy(content, table) ==
    /\ {content.risk_factors[i] : i \in 1..Len(content.risk_factors)} = table
    /\ Len(content.risk_factors) = Cardinality(table)
    /\ LET sum == SumSeq([i \in 1..Len(content.risk_factors) |->
                             content.risk_factors[i].score])
       IN  content.total_risk_score = (IF sum < 1000 THEN sum ELSE 1000)

\* C14 as stated: calculate_content_risk_score enters a factor exactly when
\* its count is above 0 or its flag is true, with the value of its capped
\* formula (forms min(n*0.35, 0.70), hidden_elements
\* min(max(n-5,0)*0.10, 0.40), excessive_ads min(max(n-5,0)*0.06, 0.20), ...),
\* omits every other factor, and the total is the sum of the entered
\* factors clamped to 1.0.
C14_FactorsAsStated ==
    pc = "llm" => ScoredBy(content_analysis, FactorTable(features, 0, 0))

\* C14, amended: as stated, except that the hidden_elements and
\* excessive_ads factors are entered exactly when their count is above the
\* allowance of 5 (a count of 1 to 5 enters no factor); every entered value
\* is above 0 and at most its cap.
C14_FactorsAboveAllowance ==
    pc = "llm"
    => /\ ScoredBy(content_analysis, FactorTable(features, 5, 5))
       /\ \A i \in 1..Len(content_analysis.risk_factors) :
              content_analysis.risk_factors[i].score > 0

\* a record with hidden elements within the allowance was scored without
\* a hidden_elements factor, next to factors that were entered
C14_Witness ==
    /\ pc = "llm"
    /\ features.hidden_elements \in 1..5
    /\ content_analysis.risk_factors # <<>>
    /\ \A i \in 1..Len(content_analysis.risk_factors) :
           content_analysis.risk_factors[i].factor # "hidden_elements"

\* the host ends with a configured trusted entry and its last
\* dot-separated label is a configured suspicious TLD
TrustedAndSuspicious(self, host) ==
    /\ \E k \in 0..Len(host) : Sub(host, k + 1, Len(host)) \in self.trusted_domains
    /\ \E k \in 0..Len(host) :
           /\ k = 0 \/ Ch(host, k) = "."
           /\ "." \notin CharSet(Sub(host, k + 1, Len(host)))
           /\ Sub(host, k + 1, Len(host)) \in self.suspicious_tlds

\* C15: for any configured trusted-domain and suspicious-TLD sets, a host
\* that both ends with a trusted entry and has a suspicious top-level label
\* gets the reputation_score 0.8, not 0.0: the suspicious check, made after
\* the trusted check, wins.
C15_SuspiciousWinsTie ==
    (pc = "scrape" /\ TrustedAndSuspicious(detector, domain_reputation.domain))
    => domain_reputation.reputation_score = 800

\* a host that is both was classified, and both reasons were recorded
C15_Witness ==
    /\ pc = "scrape"
    /\ TrustedAndSuspicious(detector, domain_reputation.domain)
    /\ domain_reputation.reputation_score = 800
    /\ domain_reputation.reputation_reason = <<"trusted_domain", "suspicious_tld">>

\* twice 0.5 * heuristic_total + 0.5 * model_likelihood / 100, in thousandths
TwiceBlended ==
    result.ret["content_analysis"].total_risk_score
    + 10 * result.ret["llm_analysis"]["phishing_likelihood"].n

\* C16: in a verdict for a domain whose reputation_score is >= 0.8 the
\* combined score is min(0.5 * heuristic_total + 0.5 * model_likelihood / 100
\* + 0.2, 1.0), and the boost alone does not make the verdict positive: a
\* blend of at most 0.3 leaves is_phishing false; in a verdict for a domain
\* of neutral reputation (0.5) the combined score is the blend unadjusted.
\* (A NaN likelihood makes each of these expressions a NaN.)
C16_SuspiciousBoost ==
    VerdictReturned
    => LET rep == result.ret["domain_reputation"].reputation_score
           c == result.ret["combined_risk_score"]
       IN  IF result.ret["llm_analysis"]["phishing_likelihood"].kind = "nan"
           THEN rep >= 500 => c.nan
           ELSE /\ ~c.nan
                /\ rep >= 800
                   => /\ 2 * c.v = (IF TwiceBlended + 400 < 2000
                                    THEN TwiceBlended + 400 ELSE 2000)
                      /\ TwiceBlended <= 600 => ~result.ret["is_phishing"]
                /\ rep = 500 => 2 * c.v = TwiceBlended

\* heuristic_total 0.1 and model_likelihood 10 on a suspicious TLD: the
\* combined score is 0.3 and the verdict is negative
C16_Witness ==
    /\ VerdictReturned
    /\ result.ret["domain_reputation"].reputation_score >= 800
    /\ result.ret["content_analysis"].total_risk_score = 100
    /\ result.ret["llm_analysis"]["phishing_likelihood"] = JInt(10)
    /\ result.ret["combined_risk_score"] = F(300)
    /\ ~result.ret["is_phishing"]

\* a step in which the text-generation service is called: its outcome or
\* the analysis made from it is new
ServiceInvoked == service' # service \/ llm_analysis' # llm_analysis

\* the call is the only one of its run and comes after a successful fetch,
\* the extraction of the features and the heuristic scoring
CalledOnceInOrder ==
    /\ ServiceInvoked
       => /\ pc = "llm" /\ pc' = "combine"
          /\ soup.status = "ok"
          /\ features # Null /\ content_analysis # Null
          /\ service = NoService /\ llm_analysis = Null
    /\ pc' = "llm" => pc = "score"
    /\ features' # features => soup.status = "ok" /\ features = Null
    /\ content_analysis' # content_analysis
       => soup.status = "ok" /\ features # Null /\ content_analysis = Null

\* after a failed fetch nothing of steps 2 to 4 has happened
NothingAfterFailedFetch ==
    soup.status = "failed"
    => /\ features = Null
       /\ content_analysis = Null
       /\ service = NoService
       /\ llm_analysis = Null

\* C17: in every run of detect_webpage_phishing the text-generation service
\* is invoked at most once, never before the fetch has succeeded and the
\* features have been extracted, and never again after a failure; when the
\* fetch fails, feature extraction, heuristic scoring and the service are
\* not invoked at all.
C17_PipelineOrder == [][CalledOnceInOrder]_vars /\ []NothingAfterFailedFetch

\* a run that ended after the one call of the service had failed
C17_Witness ==
    /\ pc = "done"
    /\ service.exc = "ConnectionError"
    /\ soup.status = "ok"
    /\ llm_analysis = DegradedError("ConnectionError")

====
